---- MODULE Spec2Model ----
(***************************************************************************)
(* Model of mockgen's reflect mode (mockgen/reflect.go): Reflect renders a *)
(* probe program, builds it with gb in a temporary workspace, runs it,     *)
(* scans the captured standard output for the ENCODED_PKG line and decodes *)
(* the gob payload that follows into a model.Package.                      *)
(*                                                                         *)
(* One behaviour is one invocation of Reflect.  Every statement of Reflect *)
(* that calls out of the function (file system, gb, the probe, the buffer, *)
(* gob) is one action; the deferred calls run one by one when Reflect      *)
(* returns.  Byte strings are sequences of one-character strings.          *)
(*                                                                         *)
(* Spec takes what the probe prints from a set of streams; ProbeSpec       *)
(* follows the main function of the synthesized probe step by step;        *)
(* PairSpec interleaves two invocations that share the file system;        *)
(* RemoveFailsSpec lets the deferred removals fail.                        *)
(***************************************************************************)
EXTENDS Integers, Sequences, FiniteSets, TLC

VARIABLES
    execOnly,     \* flag -exec_only
    progOnly,     \* flag -prog_only
    importPath,   \* argument importPath, as its slash-separated components
    symbols,      \* argument symbols
    pc,           \* position in Reflect
    fs,           \* paths that exist in the file system
    tmpDir,       \* local tmpDir ("" before ioutil.TempDir returned)
    program,      \* local program (bytes.Buffer)
    gbProjectDir, \* local gbProjectDir
    progPath,     \* local progPath
    defers,       \* deferred calls of this invocation, oldest first
    captured,     \* everything the probe wrote to its standard output
    stdout,       \* local stdout (bytes.Buffer): the bytes not yet read
    line,         \* local line
    err,          \* local err of the scanning loop
    ret,          \* what Reflect returned: [pkg, err]
    exitStatus,   \* status of os.Exit, -1 while the process lives
    osStdout,     \* what the process wrote to os.Stdout
    log,          \* steps started so far, in order
    failed,       \* steps that ended with an error, in order
    removed,      \* paths handed to os.Remove / os.RemoveAll, in order
    ppc,          \* position in the probe's main ("idle": no probe process)
    its,          \* probe: the table its
    pIdx,         \* probe: how many entries of its the loop has taken
    ppkg,         \* probe: the value of pkg
    preMain,      \* probe: standard output written before main started
    pStdout,      \* probe: what main wrote to standard output
    pStderr,      \* probe: what main wrote to standard error
    pStatus,      \* probe: exit status, -1 while it runs
    other         \* a second invocation of Reflect while this one has the
                  \* processor: its flags, arguments, position and locals

\* the state of the probe process
probeVars == <<ppc, its, pIdx, ppkg, preMain, pStdout, pStderr, pStatus>>

vars == <<execOnly, progOnly, importPath, symbols, pc, fs, tmpDir, program,
          gbProjectDir, progPath, defers, captured, stdout, line, err, ret,
          exitStatus, osStdout, log, failed, removed, probeVars, other>>

-----------------------------------------------------------------------------
(* Bounds *)

MaxSymbols == 1    \* longest symbol list
MaxLines == 2      \* most whole lines the probe prints before the tail
MaxProbeSymbols == 2   \* longest symbol list a synthesized probe is run with

-----------------------------------------------------------------------------
(* Values *)

Nil == "nil"

\* io.EOF, io.ErrUnexpectedEOF and the other errors Reflect can hand back.
EOF == "EOF"
ErrUnexpectedEOF == "unexpected EOF"
ErrGob == "gob: bad data"
ErrTempDir == "TempDir error"
ErrExecute == "template error"
ErrWriteFile == "WriteFile error"
ErrGbInfo == "gb info: exit status 1"
ErrBuild == "gb build: exit status 1"
ErrRun == "probe: exit status 1"

\* the comparison string of the scanning loop, "ENCODED_PKG\n"
SentinelLine == <<"E", "N", "C", "O", "D", "E", "D", "_", "P", "K", "G", "\n">>

ImportPaths == {<<"iface">>, <<"sample", "iface">>}
SymbolNames == {"Fooer", "Barer"}
SymbolLists == UNION {[1..n -> SymbolNames] : n \in 0..MaxSymbols}
\* the symbol lists of the runs that follow the synthesized probe step by step
ProbeSymbolLists == UNION {[1..n -> SymbolNames] : n \in 0..MaxProbeSymbols}
ExecPaths == {"", "./probe"}
TmpNames == {"gomock_reflect_1", "gomock_reflect_2"}
ProjectDirs == {"/proj"}
BinSuffixes == {"", ".exe"}
progSource == "prog.go"

-----------------------------------------------------------------------------
(* model.Package and its gob encoding *)

Package(name, interfaces) == [Name |-> name, Interfaces |-> interfaces]
Interface(name, methods) == [Name |-> name, Methods |-> methods]
Method(name, in, out) == [Name |-> name, In |-> in, Out |-> out]
Parameter(name, type) == [Name |-> name, Type |-> type]

\* model.Type: one constructor per kind, the kind kept in the value
PredeclaredType(name) == [Kind |-> "Predeclared", Name |-> name]
NamedType(pkg, name) == [Kind |-> "Named", Package |-> pkg, Type |-> name]
PointerType(elem) == [Kind |-> "Pointer", Elem |-> <<elem>>]
\* a slice is an array of length -1
ArrayType(len, elem) == [Kind |-> "Array", Length |-> len, Elem |-> <<elem>>]

IntType == PredeclaredType("int")
FooType == NamedType("sample/iface", "Foo")
\* []*iface.Foo
SliceOfPointerToFoo == ArrayType(-1, PointerType(FooType))

\* interfaces as reflection can describe them
GetMethod == Method("Get", <<>>, <<Parameter("", IntType)>>)
PutMethod ==
    Method("Put", <<Parameter("vs", SliceOfPointerToFoo)>>,
           <<Parameter("", PointerType(FooType))>>)
MethodLists == {<<>>, <<GetMethod, PutMethod>>, <<PutMethod, GetMethod>>}

\* the packages whose encodings a probe of the standard-output model prints
Packages ==
    {Package("iface", <<>>), Package("iface", <<Interface("Fooer", <<>>)>>)}

Digits == <<"0", "1", "2", "3", "4", "5", "6", "7", "8", "9">>
\* a count or a length on the wire; -1 is the length of a slice
Digit(n) == IF n = -1 THEN "-1" ELSE Digits[n + 1]
IsDigit(tok) == tok = "-1" \/ \E i \in 1..Len(Digits) : Digits[i] = tok
DigitValue(tok) ==
    IF tok = "-1" THEN -1 ELSE (CHOOSE i \in 1..Len(Digits) : Digits[i] = tok) - 1

\* the names gob sends for the registered implementations of model.Type
TagPredeclared == "model.PredeclaredType"
TagNamed == "*model.NamedType"
TagPointer == "*model.PointerType"
TagArray == "*model.ArrayType"

\* a model.Type on the wire: the name of its concrete type, then its fields
RECURSIVE EncodeType(_)
EncodeType(t) ==
    CASE t.Kind = "Predeclared" -> <<TagPredeclared, t.Name>>
      [] t.Kind = "Named" -> <<TagNamed, t.Package, t.Type>>
      [] t.Kind = "Pointer" -> <<TagPointer>> \o EncodeType(t.Elem[1])
      [] t.Kind = "Array" ->
            <<TagArray, Digit(t.Length)>> \o EncodeType(t.Elem[1])

RECURSIVE EncodeParameters(_)
EncodeParameters(ps) ==
    IF ps = <<>> THEN <<>>
    ELSE <<Head(ps).Name>> \o EncodeType(Head(ps).Type)
            \o EncodeParameters(Tail(ps))

RECURSIVE EncodeMethods(_)
EncodeMethods(ms) ==
    IF ms = <<>> THEN <<>>
    ELSE <<Head(ms).Name, Digit(Len(Head(ms).In))>>
            \o EncodeParameters(Head(ms).In)
            \o <<Digit(Len(Head(ms).Out))>> \o EncodeParameters(Head(ms).Out)
            \o EncodeMethods(Tail(ms))

RECURSIVE EncodeInterfaces(_)
EncodeInterfaces(is) ==
    IF is = <<>> THEN <<>>
    ELSE <<Head(is).Name, Digit(Len(Head(is).Methods))>>
            \o EncodeMethods(Head(is).Methods)
            \o EncodeInterfaces(Tail(is))

\* gob.NewEncoder(w).Encode(pkg): a self-describing message, the type
\* descriptor first, then the value with its length-prefixed fields.
GobEncode(pkg) ==
    <<"gobtype:Package", pkg.Name, Digit(Len(pkg.Interfaces))>>
        \o EncodeInterfaces(pkg.Interfaces) \o <<"gobend">>

IsPrefix(s, t) == Len(s) <= Len(t) /\ SubSeq(t, 1, Len(s)) = s

\* results of a decoding step: the value (in a one-element sequence) and the
\* bytes after it, or the error
Decoded(val, rest) == [err |-> Nil, val |-> <<val>>, rest |-> rest]
DecodeError(e) == [err |-> e, val |-> <<>>, rest |-> <<>>]
Drop(b, n) == SubSeq(b, n + 1, Len(b))

\* a decoded element put in front of the decoded rest of its list
Cons(x, r) ==
    IF r.err # Nil THEN r ELSE Decoded(<<x>> \o r.val[1], r.rest)

\* faulty variant: the decoder yields the element type in place of the pointer
PointerOfLosesTag(e) == e

\* the pointer to a decoded element type
PointerOf(e) ==
    IF e.err # Nil THEN e ELSE Decoded(PointerType(e.val[1]), e.rest)

\* the array, or the slice, of a decoded element type
ArrayOf(len, e) ==
    IF e.err # Nil THEN e ELSE Decoded(ArrayType(len, e.val[1]), e.rest)

\* a model.Type: the name of the concrete type says which fields follow
RECURSIVE DecodeType(_)
DecodeType(b) ==
    IF b = <<>> THEN DecodeError(ErrUnexpectedEOF)
    ELSE IF b[1] = TagPredeclared THEN
        IF Len(b) < 2 THEN DecodeError(ErrUnexpectedEOF)
        ELSE Decoded(PredeclaredType(b[2]), Drop(b, 2))
    ELSE IF b[1] = TagNamed THEN
        IF Len(b) < 3 THEN DecodeError(ErrUnexpectedEOF)
        ELSE Decoded(NamedType(b[2], b[3]), Drop(b, 3))
    ELSE IF b[1] = TagPointer THEN PointerOf(DecodeType(Drop(b, 1)))
    ELSE IF b[1] = TagArray THEN
        IF Len(b) < 2 THEN DecodeError(ErrUnexpectedEOF)
        ELSE IF ~IsDigit(b[2]) THEN DecodeError(ErrGob)
        ELSE ArrayOf(DigitValue(b[2]), DecodeType(Drop(b, 2)))
    ELSE DecodeError(ErrGob)

\* n parameters: each a name and a type
RECURSIVE DecodeParameters(_, _)
ParameterOf(name, t, n) ==
    IF t.err # Nil THEN t
    ELSE Cons(Parameter(name, t.val[1]), DecodeParameters(t.rest, n - 1))
DecodeParameters(b, n) ==
    IF n = 0 THEN Decoded(<<>>, b)
    ELSE IF b = <<>> THEN DecodeError(ErrUnexpectedEOF)
    ELSE ParameterOf(b[1], DecodeType(Drop(b, 1)), n)

\* a count, then that many parameters
DecodeParameterList(b) ==
    IF b = <<>> THEN DecodeError(ErrUnexpectedEOF)
    ELSE IF ~IsDigit(b[1]) \/ b[1] = "-1" THEN DecodeError(ErrGob)
    ELSE DecodeParameters(Drop(b, 1), DigitValue(b[1]))

\* n methods: each a name, the parameters and the results
RECURSIVE DecodeMethods(_, _)
MethodOf(name, in, out, n) ==
    IF out.err # Nil THEN out
    ELSE Cons(Method(name, in, out.val[1]), DecodeMethods(out.rest, n - 1))
MethodAfterIn(name, in, n) ==
    IF in.err # Nil THEN in
    ELSE MethodOf(name, in.val[1], DecodeParameterList(in.rest), n)
DecodeMethods(b, n) ==
    IF n = 0 THEN Decoded(<<>>, b)
    ELSE IF b = <<>> THEN DecodeError(ErrUnexpectedEOF)
    ELSE MethodAfterIn(b[1], DecodeParameterList(Drop(b, 1)), n)

\* n interfaces: each a name, a count and that many methods
RECURSIVE DecodeInterfaces(_, _)
InterfaceOf(name, ms, n) ==
    IF ms.err # Nil THEN ms
    ELSE Cons(Interface(name, ms.val[1]), DecodeInterfaces(ms.rest, n - 1))
DecodeInterfaces(b, n) ==
    IF n = 0 THEN Decoded(<<>>, b)
    ELSE IF Len(b) < 2 THEN DecodeError(ErrUnexpectedEOF)
    ELSE IF ~IsDigit(b[2]) \/ b[2] = "-1" THEN DecodeError(ErrGob)
    ELSE InterfaceOf(b[1], DecodeMethods(Drop(b, 2), DigitValue(b[2])), n)

\* the Package of a message whose interfaces are decoded: the end of the
\* message has to follow them
PackageOf(name, is) ==
    IF is.err # Nil THEN [pkg |-> <<>>, err |-> is.err]
    ELSE IF is.rest = <<>> THEN [pkg |-> <<>>, err |-> ErrUnexpectedEOF]
    ELSE IF is.rest[1] # "gobend" THEN [pkg |-> <<>>, err |-> ErrGob]
    ELSE [pkg |-> <<Package(name, is.val[1])>>, err |-> Nil]

\* gob.NewDecoder(r).Decode(&pkg) on the bytes left in r: io.EOF at a clean
\* end of input, io.ErrUnexpectedEOF inside a message, a gob error on bytes
\* that are no message, else the value of the first message.
GobDecode(bytes) ==
    IF bytes = <<>> THEN [pkg |-> <<>>, err |-> EOF]
    ELSE IF bytes[1] # "gobtype:Package" THEN [pkg |-> <<>>, err |-> ErrGob]
    ELSE IF Len(bytes) < 3 THEN [pkg |-> <<>>, err |-> ErrUnexpectedEOF]
    ELSE IF ~IsDigit(bytes[3]) \/ bytes[3] = "-1"
    THEN [pkg |-> <<>>, err |-> ErrGob]
    ELSE PackageOf(bytes[2],
                   DecodeInterfaces(Drop(bytes, 3), DigitValue(bytes[3])))

-----------------------------------------------------------------------------
(* What a probe can write to its standard output *)

RECURSIVE Flatten(_)
Flatten(ls) == IF ls = <<>> THEN <<>> ELSE Head(ls) \o Flatten(Tail(ls))

\* whole lines: the empty line, the sentinel, and two lines that differ from
\* the sentinel in one byte
Lines ==
    {<<"\n">>, SentinelLine,
     <<"x">> \o SentinelLine,
     SubSeq(SentinelLine, 1, 11) \o <<"x", "\n">>}

\* what follows the last whole line: nothing, an unterminated line, or a
\* payload (whole, cut short, or not gob at all)
Tails ==
    {<<>>, SubSeq(SentinelLine, 1, 11), <<"notgob">>}
        \cup {GobEncode(p) : p \in Packages}
        \cup {SubSeq(GobEncode(p), 1, 2) : p \in Packages}

Streams ==
    {Flatten(ls) \o t :
        ls \in UNION {[1..n -> Lines] : n \in 0..MaxLines}, t \in Tails}

-----------------------------------------------------------------------------
(* Helpers of the standard library as Reflect uses them *)

\* bytes.Buffer.ReadString('\n'): the bytes up to and including the first
\* newline; at end of input the bytes that are left and io.EOF.
ReadString(buf) ==
    IF \E i \in 1..Len(buf) : buf[i] = "\n"
    THEN LET i == CHOOSE j \in 1..Len(buf) :
                      buf[j] = "\n" /\ \A k \in 1..(j - 1) : buf[k] # "\n"
         IN [line |-> SubSeq(buf, 1, i), rest |-> SubSeq(buf, i + 1, Len(buf)),
             err |-> Nil]
    ELSE [line |-> buf, rest |-> <<>>, err |-> EOF]

\* os.RemoveAll(path): path and everything below it
RemoveAll(files, path) == {p \in files : ~IsPrefix(path, p)}

\* os.Remove(path): the one file, or the directory if it is empty
Remove(files, path) ==
    IF \E p \in files : p # path /\ IsPrefix(path, p) THEN files
    ELSE files \ {path}

\* faulty variant: the workspace handed to os.Remove instead of os.RemoveAll
RunDeferredCallRemoveOnly(files, d) == Remove(files, d.path)

\* one deferred call, run
RunDeferredCall(files, d) ==
    IF d.fn = "RemoveAll" THEN RemoveAll(files, d.path)
    ELSE Remove(files, d.path)

\* the import path as text: its components with slashes between them
RECURSIVE JoinPath(_)
JoinPath(path) ==
    IF Len(path) <= 1 THEN path
    ELSE <<Head(path), "/">> \o JoinPath(Tail(path))

\* printf "%q": the text in double quotes
Quote(text) == <<"\"">> \o text \o <<"\"">>

\* faulty variant: the entries come out last symbol first
RECURSIVE EntriesReversed(_)
EntriesReversed(syms) ==
    IF syms = <<>> THEN <<>>
    ELSE EntriesReversed(Tail(syms))
            \o <<"{ ">> \o Quote(<<Head(syms)>>)
            \o <<", reflect.TypeOf((*pkg_.", Head(syms), ")(nil)).Elem()},">>

\* lines 161-163: one entry of the its table per symbol, in order
RECURSIVE Entries(_)
Entries(syms) ==
    IF syms = <<>> THEN <<>>
    ELSE <<"{ ">> \o Quote(<<Head(syms)>>)
            \o <<", reflect.TypeOf((*pkg_.", Head(syms), ")(nil)).Elem()},">>
            \o Entries(Tail(syms))

\* faulty variant: the name of the workspace is written into the source
ReflectProgramInWorkspace(path, syms) ==
    <<"package ", tmpDir, "import (", "pkg_ ">> \o Quote(JoinPath(path))
        \o <<")", "func main() {", "its := []struct{">>
        \o Entries(syms)
        \o <<"}", "Name: path.Base(">> \o Quote(JoinPath(path))
        \o <<")", "for _, it := range its", "fmt.Println(\"\\nENCODED_PKG\")",
             "gob.NewEncoder(os.Stdout).Encode(pkg)", "}">>

\* lines 141-189: reflectProgram.Execute(&program, &data)
ReflectProgram(path, syms) ==
    <<"package main", "import (", "pkg_ ">> \o Quote(JoinPath(path))
        \o <<")", "func main() {", "its := []struct{">>
        \o Entries(syms)
        \o <<"}", "Name: path.Base(">> \o Quote(JoinPath(path))
        \o <<")", "for _, it := range its", "fmt.Println(\"\\nENCODED_PKG\")",
             "gob.NewEncoder(os.Stdout).Encode(pkg)", "}">>

-----------------------------------------------------------------------------
(* Reflect *)

\* no probe process yet
ProbeIdle ==
    /\ ppc = "idle"
    /\ its = <<>>
    /\ pIdx = 0
    /\ ppkg = Package("", <<>>)
    /\ preMain = <<>>
    /\ pStdout = <<>>
    /\ pStderr = <<>>
    /\ pStatus = -1

\* the call of Reflect: the flags from the given sets, the symbols from lists
InitWith(execs, progs, lists) ==
    /\ execOnly \in execs
    /\ progOnly \in progs
    /\ importPath \in ImportPaths
    /\ symbols \in lists
    /\ ProbeIdle
    /\ pc = "start"
    /\ fs = IF execOnly = "" THEN {} ELSE {<<execOnly>>}
    /\ tmpDir = ""
    /\ program = <<>>
    /\ gbProjectDir = ""
    /\ progPath = <<>>
    /\ defers = <<>>
    /\ captured = <<>>
    /\ stdout = <<>>
    /\ line = <<>>
    /\ err = Nil
    /\ ret = [pkg |-> <<>>, err |-> Nil]
    /\ exitStatus = -1
    /\ osStdout = <<>>
    /\ log = <<>>
    /\ failed = <<>>
    /\ removed = <<>>

\* no second invocation
NoInvocation == [pc |-> "none"]

Init == InitWith(ExecPaths, BOOLEAN, SymbolLists) /\ other = NoInvocation

\* "return nil, e" and "return &pkg, nil": the deferred calls run next
Return(pkg, e) ==
    /\ ret' = [pkg |-> pkg, err |-> e]
    /\ pc' = "defers"

\* the outcome of a step: a step that ended with an error is recorded
Outcome(step, ok) ==
    failed' = IF ok THEN failed ELSE Append(failed, step)

\* faulty variant: exec_only is not looked at
BuildModeAlways(flag) == TRUE

\* line 43: build mode if no probe was supplied
BuildMode(flag) == flag = ""

\* faulty variant: the os.Remove(progPath) of line 81 deferred for a supplied
\* probe too
UseExecOnlyDeferRemove ==
    /\ pc = "start"
    /\ ~BuildMode(execOnly)
    /\ progPath' = <<execOnly>>
    /\ defers' = Append(defers, [fn |-> "Remove", path |-> <<execOnly>>])
    /\ pc' = "run"
    /\ UNCHANGED <<other, probeVars, execOnly, progOnly, importPath, symbols, fs, tmpDir, program,
                   gbProjectDir, captured, stdout, line, err, ret,
                   exitStatus, osStdout, log, failed, removed>>

\* lines 42-43, exec_only set: the supplied executable is the probe
UseExecOnly ==
    /\ pc = "start"
    /\ ~BuildMode(execOnly)
    /\ progPath' = <<execOnly>>
    /\ pc' = "run"
    /\ UNCHANGED <<other, probeVars, execOnly, progOnly, importPath, symbols, fs, tmpDir, program,
                   gbProjectDir, defers, captured, stdout, line, err, ret,
                   exitStatus, osStdout, log, failed, removed>>

\* lines 45-49: ioutil.TempDir and the deferred os.RemoveAll
TempDir ==
    /\ pc = "start"
    /\ BuildMode(execOnly)
    /\ log' = Append(log, "TempDir")
    /\ \/ /\ Outcome("TempDir", FALSE)
          /\ Return(<<>>, ErrTempDir)
          /\ UNCHANGED <<fs, tmpDir, defers>>
       \/ \E name \in TmpNames :
              /\ <<name>> \notin fs
              /\ Outcome("TempDir", TRUE)
              /\ tmpDir' = name
              /\ fs' = fs \cup {<<name>>}
              /\ defers' = Append(defers, [fn |-> "RemoveAll", path |-> <<name>>])
              /\ pc' = "render"
              /\ UNCHANGED ret
    /\ UNCHANGED <<other, probeVars, execOnly, progOnly, importPath, symbols, program,
                   gbProjectDir, progPath, captured, stdout, line, err,
                   exitStatus, osStdout, removed>>

\* lines 52-60: render the probe's source
Render ==
    /\ pc = "render"
    /\ log' = Append(log, "Render")
    /\ \/ /\ Outcome("Render", FALSE)
          /\ Return(<<>>, ErrExecute)
          /\ UNCHANGED program
       \/ /\ Outcome("Render", TRUE)
          /\ program' = ReflectProgram(importPath, symbols)
          /\ pc' = "rendered"
          /\ UNCHANGED ret
    /\ UNCHANGED <<other, probeVars, execOnly, progOnly, importPath, symbols, fs, tmpDir,
                   gbProjectDir, progPath, defers, captured, stdout, line, err,
                   exitStatus, osStdout, removed>>

\* faulty variant: prog_only is not looked at
PrintOnlyNever(flag) == FALSE

\* line 61: the program is only printed if prog_only is set
PrintOnly(flag) == flag

\* lines 61-64: io.Copy(os.Stdout, &program); os.Exit(0).  os.Exit ends the
\* process at once: the deferred calls do not run.
PrintProgram ==
    /\ pc = "rendered"
    /\ PrintOnly(progOnly)
    /\ log' = Append(log, "Print")
    /\ osStdout' = osStdout \o program
    /\ program' = <<>>
    /\ exitStatus' = 0
    /\ pc' = "exited"
    /\ UNCHANGED <<other, probeVars, execOnly, progOnly, importPath, symbols, fs, tmpDir,
                   gbProjectDir, progPath, defers, captured, stdout, line, err,
                   ret, failed, removed>>

\* lines 65-67: ioutil.WriteFile(tmpDir/prog.go)
WriteFile ==
    /\ pc = "rendered"
    /\ ~PrintOnly(progOnly)
    /\ log' = Append(log, "WriteFile")
    /\ \/ /\ Outcome("WriteFile", FALSE)
          /\ Return(<<>>, ErrWriteFile)
          /\ UNCHANGED fs
       \/ /\ Outcome("WriteFile", TRUE)
          /\ fs' = fs \cup {<<tmpDir, progSource>>}
          /\ pc' = "gbProjectDir"
          /\ UNCHANGED ret
    /\ UNCHANGED <<other, probeVars, execOnly, progOnly, importPath, symbols, tmpDir, program,
                   gbProjectDir, progPath, defers, captured, stdout, line, err,
                   exitStatus, osStdout, removed>>

\* lines 69-72: getGbInfo("GB_PROJECT_DIR")
GetGbProjectDir ==
    /\ pc = "gbProjectDir"
    /\ log' = Append(log, "GbProjectDir")
    /\ \/ /\ Outcome("GbProjectDir", FALSE)
          /\ Return(<<>>, ErrGbInfo)
          /\ UNCHANGED gbProjectDir
       \/ \E dir \in ProjectDirs :
              /\ Outcome("GbProjectDir", TRUE)
              /\ gbProjectDir' = dir
              /\ pc' = "gbBinSuffix"
              /\ UNCHANGED ret
    /\ UNCHANGED <<other, probeVars, execOnly, progOnly, importPath, symbols, fs, tmpDir, program,
                   progPath, defers, captured, stdout, line, err, exitStatus,
                   osStdout, removed>>

\* lines 74-81: getGbInfo("GB_BIN_SUFFIX"), the probe's path and the deferred
\* os.Remove(progPath)
GetGbBinSuffix ==
    /\ pc = "gbBinSuffix"
    /\ log' = Append(log, "GbBinSuffix")
    /\ \/ /\ Outcome("GbBinSuffix", FALSE)
          /\ Return(<<>>, ErrGbInfo)
          /\ UNCHANGED <<progPath, defers>>
       \/ \E gbBinSuffix \in BinSuffixes :
              LET path == <<gbProjectDir, "bin", tmpDir \o gbBinSuffix>>
              IN /\ Outcome("GbBinSuffix", TRUE)
                 /\ progPath' = path
                 /\ defers' = Append(defers, [fn |-> "Remove", path |-> path])
                 /\ pc' = "build"
                 /\ UNCHANGED ret
    /\ UNCHANGED <<other, probeVars, execOnly, progOnly, importPath, symbols, fs, tmpDir, program,
                   gbProjectDir, captured, stdout, line, err, exitStatus,
                   osStdout, removed>>

\* faulty variant: the error of gb build is dropped
AfterBuildIgnoreError(ok) == "run"

\* faulty variant: a failed gb build is started again
AfterBuildRetry(ok) == IF ok THEN "run" ELSE "build"

\* where Reflect goes after "gb build" ended
AfterBuild(ok) == IF ok THEN "run" ELSE "return"

\* lines 83-90: gb build tmpDir; a successful build leaves the executable
Build ==
    /\ pc = "build"
    /\ log' = Append(log, "Build")
    /\ \E ok \in BOOLEAN :
          /\ Outcome("Build", ok)
          /\ fs' = IF ok THEN fs \cup {progPath} ELSE fs
          /\ IF AfterBuild(ok) = "return"
             THEN Return(<<>>, ErrBuild)
             ELSE /\ pc' = AfterBuild(ok)
                  /\ UNCHANGED ret
    /\ UNCHANGED <<other, probeVars, execOnly, progOnly, importPath, symbols, tmpDir, program,
                   gbProjectDir, progPath, defers, captured, stdout, line, err,
                   exitStatus, osStdout, removed>>

\* faulty variant: the error of the probe is dropped
AfterRunIgnoreError(ok) == "scan"

\* where Reflect goes after the probe ended
AfterRun(ok) == IF ok THEN "scan" ELSE "return"

\* lines 94-101: run the probe, standard output captured in stdout
Run ==
    /\ pc = "run"
    /\ log' = Append(log, "Run")
    /\ \E ok \in BOOLEAN, out \in Streams :
          /\ captured' = out
          /\ stdout' = out
          /\ Outcome("Run", ok)
          /\ IF AfterRun(ok) = "return"
             THEN Return(<<>>, ErrRun)
             ELSE /\ pc' = AfterRun(ok)
                  /\ UNCHANGED ret
    /\ UNCHANGED <<other, probeVars, execOnly, progOnly, importPath, symbols, fs, tmpDir, program,
                   gbProjectDir, progPath, defers, line, err, exitStatus,
                   osStdout, removed>>

\* line 103: the first stdout.ReadString('\n')
ReadFirstLine ==
    /\ pc = "scan"
    /\ log' = Append(log, "Scan")
    /\ LET r == ReadString(stdout)
       IN /\ line' = r.line
          /\ err' = r.err
          /\ stdout' = r.rest
    /\ pc' = "loop"
    /\ UNCHANGED <<other, probeVars, execOnly, progOnly, importPath, symbols, fs, tmpDir, program,
                   gbProjectDir, progPath, defers, captured, ret, exitStatus,
                   osStdout, failed, removed>>

\* faulty variant: a line that only ends with the sentinel stops the loop
LoopCondSuffix(l, e) ==
    e = Nil /\ ~(Len(l) >= 12 /\ SubSeq(l, Len(l) - 11, Len(l)) = SentinelLine)

\* line 105: the loop's condition
LoopCond(l, e) == e = Nil /\ l # SentinelLine

\* lines 105-107: one more line
LoopBody ==
    /\ pc = "loop"
    /\ LoopCond(line, err)
    /\ LET r == ReadString(stdout)
       IN /\ line' = r.line
          /\ err' = r.err
          /\ stdout' = r.rest
    /\ UNCHANGED <<other, probeVars, execOnly, progOnly, importPath, symbols, pc, fs, tmpDir,
                   program, gbProjectDir, progPath, defers, captured, ret,
                   exitStatus, osStdout, log, failed, removed>>

\* faulty variant: the error of the scan is not checked
ScanFailedNever(e) == FALSE

\* line 109: the check after the loop
ScanFailed(e) == e # Nil

\* lines 109-111: the loop is left; its error, if any, is returned
LoopExit ==
    /\ pc = "loop"
    /\ ~LoopCond(line, err)
    /\ Outcome("Scan", err = Nil)
    /\ IF ScanFailed(err)
       THEN Return(<<>>, err)
       ELSE /\ pc' = "decode"
            /\ UNCHANGED ret
    /\ UNCHANGED <<other, probeVars, execOnly, progOnly, importPath, symbols, fs, tmpDir, program,
                   gbProjectDir, progPath, defers, captured, stdout, line, err,
                   exitStatus, osStdout, log, removed>>

\* lines 113-118: decode the payload and return
Decode ==
    /\ pc = "decode"
    /\ log' = Append(log, "Decode")
    /\ LET r == GobDecode(stdout)
       IN /\ Outcome("Decode", r.err = Nil)
          /\ IF r.err # Nil
             THEN Return(<<>>, r.err)
             ELSE Return(r.pkg, Nil)
    /\ UNCHANGED <<other, probeVars, execOnly, progOnly, importPath, symbols, fs, tmpDir, program,
                   gbProjectDir, progPath, defers, captured, stdout, line, err,
                   exitStatus, osStdout, removed>>

\* faulty variant: the deferred calls run in the order they were deferred
RunDeferredOldestFirst ==
    /\ pc = "defers"
    /\ defers # <<>>
    /\ fs' = RunDeferredCall(fs, defers[1])
    /\ removed' = Append(removed, defers[1].path)
    /\ defers' = Tail(defers)
    /\ UNCHANGED <<other, probeVars, execOnly, progOnly, importPath, symbols, pc, tmpDir, program,
                   gbProjectDir, progPath, captured, stdout, line, err, ret,
                   exitStatus, osStdout, log, failed>>

\* lines 49 and 81 at return: the deferred calls, last deferred first
RunDeferred ==
    /\ pc = "defers"
    /\ defers # <<>>
    /\ LET d == defers[Len(defers)]
       IN /\ fs' = RunDeferredCall(fs, d)
          /\ removed' = Append(removed, d.path)
    /\ defers' = SubSeq(defers, 1, Len(defers) - 1)
    /\ UNCHANGED <<other, probeVars, execOnly, progOnly, importPath, symbols, pc, tmpDir, program,
                   gbProjectDir, progPath, captured, stdout, line, err, ret,
                   exitStatus, osStdout, log, failed>>

\* Reflect has returned to its caller
Returned ==
    /\ pc = "defers"
    /\ defers = <<>>
    /\ pc' = "done"
    /\ UNCHANGED <<other, probeVars, execOnly, progOnly, importPath, symbols, fs, tmpDir, program,
                   gbProjectDir, progPath, defers, captured, stdout, line, err,
                   ret, exitStatus, osStdout, log, failed, removed>>

Next ==
    \/ UseExecOnly
    \/ TempDir
    \/ Render
    \/ PrintProgram
    \/ WriteFile
    \/ GetGbProjectDir
    \/ GetGbBinSuffix
    \/ Build
    \/ Run
    \/ ReadFirstLine
    \/ LoopBody
    \/ LoopExit
    \/ Decode
    \/ RunDeferred
    \/ Returned

Spec == Init /\ [][Next]_vars

\* lines 105-119 and the deferred calls: what Reflect does on its own once the
\* probe's output is in the buffer
ScanToReturn == LoopBody \/ LoopExit \/ Decode \/ RunDeferred \/ Returned

\* Reflect is straight-line code on one goroutine, and none of these steps
\* waits for anything outside the process: a step that can be taken is taken.
FairSpec == Spec /\ WF_vars(ScanToReturn)

-----------------------------------------------------------------------------
(* The synthesized probe, run by Reflect in build mode *)

\* the text that opens the type expression of an entry of its (line 162)
EntryMark == ", reflect.TypeOf((*pkg_."

\* lines 157-164 as compiled: one element of its per entry of the source, the
\* string literal as sym and the named type as typ
RECURSIVE ItsFrom(_, _)
ItsFrom(prog, i) ==
    IF i > Len(prog) THEN <<>>
    ELSE IF prog[i] = EntryMark
    THEN <<[sym |-> prog[i - 2], typ |-> prog[i + 1]]>> \o ItsFrom(prog, i + 1)
    ELSE ItsFrom(prog, i + 1)
ItsOf(prog) == ItsFrom(prog, 1)

\* the text between the double quotes that start at position i
RECURSIVE Unquote(_, _)
Unquote(prog, i) ==
    IF i > Len(prog) \/ prog[i] = "\"" THEN <<>>
    ELSE <<prog[i]>> \o Unquote(prog, i + 1)

\* path.Base: the last component of a path, "." for the empty path
PathBase(text) == IF text = <<>> THEN "." ELSE text[Len(text)]

\* line 169 as compiled: path.Base of the string literal in the source
NameOf(prog) ==
    LET i == CHOOSE j \in 1..Len(prog) : prog[j] = "Name: path.Base("
    IN PathBase(Unquote(prog, i + 2))

\* what the packages linked into the probe print before main runs
PreMainOutputs == {<<>>, <<"x">>, <<"x", "\n">>}

\* lines 95-99: cmd.Run starts the executable built from the source
StartProbe ==
    /\ pc = "run"
    /\ ppc = "idle"
    /\ log' = Append(log, "Run")
    /\ pc' = "wait"
    /\ ppc' = "main"
    /\ preMain' \in PreMainOutputs
    /\ UNCHANGED <<execOnly, progOnly, importPath, symbols, fs, tmpDir, program,
                   gbProjectDir, progPath, defers, captured, stdout, line, err,
                   ret, exitStatus, osStdout, failed, removed>>
    /\ UNCHANGED <<its, pIdx, ppkg, pStdout, pStderr, pStatus, other>>

\* what the probe leaves alone
reflectVars ==
    <<execOnly, progOnly, importPath, symbols, pc, fs, tmpDir, program,
      gbProjectDir, progPath, defers, captured, stdout, line, err, ret,
      exitStatus, osStdout, log, failed, removed, other>>

\* lines 157-170: the table its and the empty Package
ProbeInit ==
    /\ ppc = "main"
    /\ its' = ItsOf(program)
    /\ ppkg' = Package(NameOf(program), <<>>)
    /\ pIdx' = 0
    /\ ppc' = "range"
    /\ UNCHANGED <<preMain, pStdout, pStderr, pStatus>>
    /\ UNCHANGED reflectVars

\* model.InterfaceFromInterfaceType(it.typ): the methods of the type, or an
\* error if the type is no interface
InterfacesFromType(typ) == {Interface("", ms) : ms \in MethodLists}

\* faulty variant: a symbol that cannot be converted is left out
ProbeConvertSkipsFailure ==
    /\ ppc = "range"
    /\ pIdx < Len(its)
    /\ pIdx' = pIdx + 1
    /\ \/ /\ pStderr' = Append(pStderr, "Reflection: error")
          /\ UNCHANGED <<ppkg, pStatus, ppc>>
       \/ \E intf \in InterfacesFromType(its[pIdx + 1].typ) :
              /\ ppkg' = [ppkg EXCEPT !.Interfaces =
                     Append(@, [intf EXCEPT !.Name = its[pIdx + 1].sym])]
              /\ UNCHANGED <<pStderr, pStatus, ppc>>
    /\ UNCHANGED <<its, preMain, pStdout>>
    /\ UNCHANGED reflectVars

\* lines 172-180: one round of the loop over its
ProbeConvert ==
    /\ ppc = "range"
    /\ pIdx < Len(its)
    /\ pIdx' = pIdx + 1
    /\ \/ /\ pStderr' = Append(pStderr, "Reflection: error")
          /\ pStatus' = 1
          /\ ppc' = "exited"
          /\ UNCHANGED ppkg
       \/ \E intf \in InterfacesFromType(its[pIdx + 1].typ) :
              /\ ppkg' = [ppkg EXCEPT !.Interfaces =
                     Append(@, [intf EXCEPT !.Name = its[pIdx + 1].sym])]
              /\ UNCHANGED <<pStderr, pStatus, ppc>>
    /\ UNCHANGED <<its, preMain, pStdout>>
    /\ UNCHANGED reflectVars

\* faulty variant: fmt.Print instead of fmt.Println
SentinelOutputNoNewline == <<"\n">> \o SubSeq(SentinelLine, 1, 11)

\* line 182: what fmt.Println("\nENCODED_PKG") writes
SentinelOutput == <<"\n">> \o SentinelLine

\* line 182, after the loop
ProbePrintSentinel ==
    /\ ppc = "range"
    /\ pIdx >= Len(its)
    /\ pStdout' = pStdout \o SentinelOutput
    /\ ppc' = "encode"
    /\ UNCHANGED <<its, pIdx, ppkg, preMain, pStderr, pStatus>>
    /\ UNCHANGED reflectVars

\* lines 184-188: the Package is encoded and main returns; if the encoder
\* fails, some of the encoding may have been written and the status is 1
ProbeEncode ==
    /\ ppc = "encode"
    /\ \/ /\ pStdout' = pStdout \o GobEncode(ppkg)
          /\ pStatus' = 0
          /\ UNCHANGED pStderr
       \/ \E n \in {0, 2} :
              /\ pStdout' = pStdout \o SubSeq(GobEncode(ppkg), 1, n)
              /\ pStderr' = Append(pStderr, "gob encode: error")
              /\ pStatus' = 1
    /\ ppc' = "exited"
    /\ UNCHANGED <<its, pIdx, ppkg, preMain>>
    /\ UNCHANGED reflectVars

\* lines 97-101: cmd.Run returns when the probe has exited, its standard
\* output in the buffer
WaitProbe ==
    /\ pc = "wait"
    /\ ppc = "exited"
    /\ captured' = preMain \o pStdout
    /\ stdout' = preMain \o pStdout
    /\ Outcome("Run", pStatus = 0)
    /\ IF AfterRun(pStatus = 0) = "return"
       THEN Return(<<>>, ErrRun)
       ELSE /\ pc' = AfterRun(pStatus = 0)
            /\ UNCHANGED ret
    /\ UNCHANGED <<other, probeVars, execOnly, progOnly, importPath, symbols, fs, tmpDir,
                   program, gbProjectDir, progPath, defers, line, err,
                   exitStatus, osStdout, log, removed>>

\* Reflect in build mode with the probe it built
ProbeNext ==
    \/ TempDir
    \/ Render
    \/ WriteFile
    \/ GetGbProjectDir
    \/ GetGbBinSuffix
    \/ Build
    \/ StartProbe
    \/ ProbeInit
    \/ ProbeConvert
    \/ ProbePrintSentinel
    \/ ProbeEncode
    \/ WaitProbe
    \/ ReadFirstLine
    \/ LoopBody
    \/ LoopExit
    \/ Decode
    \/ RunDeferred
    \/ Returned

ProbeInitial ==
    InitWith({""}, {FALSE}, ProbeSymbolLists) /\ other = NoInvocation

ProbeSpec == ProbeInitial /\ [][ProbeNext]_vars

-----------------------------------------------------------------------------
(* Two invocations of Reflect in build mode, in two processes that share   *)
(* the current directory and the gb project                                *)

\* the flags, arguments, position and locals of the invocation that has the
\* processor
Locals ==
    [execOnly |-> execOnly, progOnly |-> progOnly, importPath |-> importPath,
     symbols |-> symbols, pc |-> pc, tmpDir |-> tmpDir, program |-> program,
     gbProjectDir |-> gbProjectDir, progPath |-> progPath, defers |-> defers,
     captured |-> captured, stdout |-> stdout, line |-> line, err |-> err,
     ret |-> ret, exitStatus |-> exitStatus, osStdout |-> osStdout,
     log |-> log, failed |-> failed, removed |-> removed]

\* lines 34-42: an invocation in build mode that has not taken a step
FirstCall(flag, path, syms) ==
    [execOnly |-> "", progOnly |-> flag, importPath |-> path,
     symbols |-> syms, pc |-> "start", tmpDir |-> "", program |-> <<>>,
     gbProjectDir |-> "", progPath |-> <<>>, defers |-> <<>>,
     captured |-> <<>>, stdout |-> <<>>, line |-> <<>>, err |-> Nil,
     ret |-> [pkg |-> <<>>, err |-> Nil], exitStatus |-> -1,
     osStdout |-> <<>>, log |-> <<>>, failed |-> <<>>, removed |-> <<>>]

\* the symbol lists of the two invocations
PairSymbolLists == {<<"Fooer">>, <<"Barer">>}

\* what the probes of the two invocations print
PairStreams ==
    {<<"\n">> \o SentinelLine \o GobEncode(Package("iface", <<>>))}

\* the scheduler takes the processor from one invocation and gives it to the
\* other: the file system stays as it is
Switch ==
    /\ other # NoInvocation
    /\ other' = Locals
    /\ execOnly' = other.execOnly
    /\ progOnly' = other.progOnly
    /\ importPath' = other.importPath
    /\ symbols' = other.symbols
    /\ pc' = other.pc
    /\ tmpDir' = other.tmpDir
    /\ program' = other.program
    /\ gbProjectDir' = other.gbProjectDir
    /\ progPath' = other.progPath
    /\ defers' = other.defers
    /\ captured' = other.captured
    /\ stdout' = other.stdout
    /\ line' = other.line
    /\ err' = other.err
    /\ ret' = other.ret
    /\ exitStatus' = other.exitStatus
    /\ osStdout' = other.osStdout
    /\ log' = other.log
    /\ failed' = other.failed
    /\ removed' = other.removed
    /\ UNCHANGED <<fs, probeVars>>

\* lines 94-101 with the probes of the two invocations
PairRun == Run /\ captured' \in PairStreams

PairNext ==
    \/ TempDir
    \/ Render
    \/ PrintProgram
    \/ WriteFile
    \/ GetGbProjectDir
    \/ GetGbBinSuffix
    \/ Build
    \/ PairRun
    \/ ReadFirstLine
    \/ LoopBody
    \/ LoopExit
    \/ Decode
    \/ RunDeferred
    \/ Returned
    \/ Switch

PairInit ==
    /\ InitWith({""}, BOOLEAN, PairSymbolLists)
    /\ other \in {FirstCall(flag, path, syms) :
                     flag \in BOOLEAN, path \in ImportPaths,
                     syms \in PairSymbolLists}

PairSpec == PairInit /\ [][PairNext]_vars

-----------------------------------------------------------------------------
(* Reflect where a removal can fail *)

\* lines 49 and 81: a deferred os.RemoveAll or os.Remove that returns an error
\* and removes nothing; neither call's result is looked at
RunDeferredFails ==
    /\ pc = "defers"
    /\ defers # <<>>
    /\ LET d == defers[Len(defers)]
       IN /\ failed' = Append(failed, d.fn)
          /\ removed' = Append(removed, d.path)
    /\ defers' = SubSeq(defers, 1, Len(defers) - 1)
    /\ UNCHANGED <<other, probeVars, execOnly, progOnly, importPath, symbols, pc, fs, tmpDir,
                   program, gbProjectDir, progPath, captured, stdout, line, err,
                   ret, exitStatus, osStdout, log>>

NextRemoveFails == Next \/ RunDeferredFails

RemoveFailsSpec == Init /\ [][NextRemoveFails]_vars

-----------------------------------------------------------------------------
(* Properties *)

Started(step) == \E i \in 1..Len(log) : log[i] = step
Count(step) == Cardinality({i \in 1..Len(log) : log[i] = step})
HasFailed(step) == \E i \in 1..Len(failed) : failed[i] = step
Over == pc \in {"done", "exited"}

\* the workspace of this invocation and everything in it is gone
WorkspaceGone == \A p \in fs : ~IsPrefix(<<tmpDir>>, p)

\* the places of a stream where a line equal to ENCODED_PKG starts
SentinelStarts(s) ==
    {i \in 1..Len(s) :
        /\ i + 11 <= Len(s)
        /\ SubSeq(s, i, i + 11) = SentinelLine
        /\ (i = 1 \/ s[i - 1] = "\n")}
HasSentinel(s) == SentinelStarts(s) # {}
FirstSentinel(s) ==
    CHOOSE i \in SentinelStarts(s) : \A j \in SentinelStarts(s) : i <= j
\* the bytes after the first sentinel line
Payload(s) == SubSeq(s, FirstSentinel(s) + 12, Len(s))

\* C1: in build mode, once the workspace directory was created, it and its
\* contents no longer exist when Reflect has returned, with a Package or
\* with the error of any step.
C1_CleanupOnReturn ==
    (pc = "done" /\ execOnly = "" /\ tmpDir # "") => WorkspaceGone

\* C1 witness: Reflect returned a Package after writing the source into the
\* workspace and building the probe.
C1_Witness ==
    /\ pc = "done" /\ execOnly = "" /\ tmpDir # ""
    /\ Started("WriteFile") /\ Started("Build")
    /\ ret.pkg # <<>>

\* C2 (as claimed): the workspace is deleted on every exit path of a
\* build-mode invocation, the print-only exit included.
C2_CleanupOnEveryExit ==
    (Over /\ execOnly = "" /\ tmpDir # "") => WorkspaceGone

\* C3: with exec_only set no workspace is created, nothing is rendered or
\* written, gb is never called, the file system is left as it was, and the
\* only process started is the supplied executable.
C3_SkipBuild ==
    execOnly # "" =>
        /\ tmpDir = "" /\ program = <<>> /\ osStdout = <<>>
        /\ fs = {<<execOnly>>}
        /\ \A i \in 1..Len(log) : log[i] \in {"Run", "Scan", "Decode"}
        /\ Started("Run") => progPath = <<execOnly>>

\* C3 witness: a pre-built probe was run and its Package returned.
C3_Witness ==
    execOnly # "" /\ pc = "done" /\ Started("Run") /\ ret.pkg # <<>>

C5_ExecErrorSkipsDecoder ==
    HasFailed("Run") =>
        /\ ~Started("Scan") /\ ~Started("Decode")
        /\ stdout = captured /\ line = <<>>
        /\ pc \in {"defers", "done"}
        /\ ret = [pkg |-> <<>>, err |-> ErrRun]

\* C5 witness: the failed probe had printed a sentinel and a good payload.
C5_Witness ==
    /\ HasFailed("Run") /\ pc = "done"
    /\ HasSentinel(captured)
    /\ GobDecode(Payload(captured)).err = Nil

\* C6: if the captured stream holds a line equal to ENCODED_PKG, the scan
\* does not fail whatever comes before the first such line, the decoder is
\* handed exactly the bytes after that line, and Reflect returns what
\* decoding those bytes gives.
C6_SentinelFound ==
    (Started("Scan") /\ HasSentinel(captured)) =>
        /\ ~HasFailed("Scan")
        /\ pc = "loop" => (err = Nil /\ IsPrefix(line \o stdout,
                    SubSeq(captured, Len(captured) - Len(line) - Len(stdout) + 1,
                           Len(captured))))
        /\ (pc = "decode" \/ Started("Decode")) => stdout = Payload(captured)
        /\ Started("Decode") =>
               /\ ret.err = GobDecode(Payload(captured)).err
               /\ ret.pkg = GobDecode(Payload(captured)).pkg

\* C6 witness: two diagnostic lines, the sentinel, and a payload that
\* decoded into a Package.
C6_Witness ==
    /\ pc = "done" /\ HasSentinel(captured)
    /\ FirstSentinel(captured) > 12
    /\ ret.pkg # <<>>

\* C7: if the captured stream holds no line equal to ENCODED_PKG, the scan
\* ends and Reflect returns an error and no Package without ever having
\* started to decode a payload.
C7_SentinelAbsent ==
    (Started("Scan") /\ ~HasSentinel(captured))
        ~> (/\ pc = "done" /\ ~Started("Decode")
            /\ ret.pkg = <<>> /\ ret.err = EOF /\ failed = <<"Scan">>)

\* C7 witness: the stream ended in an unterminated ENCODED_PKG after other
\* lines and Reflect returned the error.
C7_Witness ==
    /\ pc = "done" /\ Started("Scan") /\ ~HasSentinel(captured)
    /\ Len(captured) > 11
    /\ SubSeq(captured, Len(captured) - 10, Len(captured))
           = SubSeq(SentinelLine, 1, 11)
    /\ ret.err # Nil

\* C8 (as claimed): the error Reflect returns when the stream has no
\* sentinel differs from the error it returns for every stream with a
\* sentinel and a payload that does not decode.
C8_ProtocolErrorDistinct ==
    (pc = "done" /\ HasFailed("Scan")) =>
        \A s \in Streams :
            (HasSentinel(s) /\ GobDecode(Payload(s)).err # Nil)
                => ret.err # GobDecode(Payload(s)).err

\* the steps of Reflect in build mode, in order
BuildOrder ==
    <<"TempDir", "Render", "WriteFile", "GbProjectDir", "GbBinSuffix",
      "Build", "Run", "Scan", "Decode">>

\* the errors a step can end with
ErrorsOf(step) ==
    CASE step = "TempDir" -> {ErrTempDir}
      [] step = "Render" -> {ErrExecute}
      [] step = "WriteFile" -> {ErrWriteFile}
      [] step \in {"GbProjectDir", "GbBinSuffix"} -> {ErrGbInfo}
      [] step = "Build" -> {ErrBuild}
      [] step = "Run" -> {ErrRun}
      [] step = "Scan" -> {EOF}
      [] OTHER -> {EOF, ErrUnexpectedEOF, ErrGob}

\* C9: in build mode the steps start in order, each only after all earlier
\* ones ended without error; after the first failure no step starts and
\* Reflect returns that step's error and no Package.
C9_SequentialFirstFailureFatal ==
    (execOnly = "" /\ ~progOnly) =>
        /\ IsPrefix(log, BuildOrder)
        /\ Len(failed) <= 1
        /\ failed # <<>> =>
               /\ log[Len(log)] = failed[1]
               /\ pc \in {"defers", "done"}
               /\ ret.pkg = <<>>
               /\ ret.err \in ErrorsOf(failed[1])
        /\ (pc \in {"defers", "done"} /\ failed = <<>>) =>
               (log = BuildOrder /\ ret.err = Nil /\ ret.pkg # <<>>)

\* C9 witness: all nine steps ran and the last one, the decode, failed.
C9_Witness ==
    /\ execOnly = "" /\ ~progOnly /\ pc = "done"
    /\ log = BuildOrder /\ failed = <<"Decode">>

\* C10: gb build is started at most once and the probe is started at most
\* once in an invocation, also after either failed.
C10_NoRetry ==
    Count("Build") <= 1 /\ Count("Run") <= 1

\* C10 witness: both were started, and the probe failed.
C10_Witness ==
    /\ pc = "done" /\ Count("Build") = 1 /\ Count("Run") = 1
    /\ HasFailed("Run")

\* C17: in build mode, once the probe's path is resolved, the file at that
\* path does not exist when Reflect has returned, whatever it returned, and
\* it was removed before the workspace; if a query failed before the path
\* was resolved, only the workspace was removed.
C17_ExecutableCleanup ==
    execOnly = "" =>
        /\ (progPath # <<>> /\ removed # <<>>) => removed[1] = progPath
        /\ (pc = "done" /\ progPath # <<>>) =>
               (progPath \notin fs /\ removed = <<progPath, <<tmpDir>>>>)
        /\ (pc = "done" /\ progPath = <<>>) =>
               removed = IF tmpDir = "" THEN <<>> ELSE <<<<tmpDir>>>>

\* C17 witness: the probe was built and run, its Package returned, and the
\* executable and then the workspace removed.
C17_Witness ==
    /\ execOnly = "" /\ pc = "done" /\ Started("Run") /\ ret.pkg # <<>>
    /\ removed = <<progPath, <<tmpDir>>>>

\* C18: with exec_only set nothing in the file system is created or deleted:
\* the supplied executable stays, no removal is deferred or made.
C18_PreBuiltUntouched ==
    execOnly # "" =>
        /\ <<execOnly>> \in fs /\ Cardinality(fs) = 1
        /\ removed = <<>> /\ defers = <<>>

\* C18 witness: the supplied probe failed and Reflect returned the error.
C18_Witness ==
    execOnly # "" /\ pc = "done" /\ HasFailed("Run") /\ ret.err = ErrRun

\* C15 (as claimed): if removing the workspace failed, Reflect returns an
\* error and no Package.
C15_RemoveFailureReported ==
    (pc = "done" /\ HasFailed("RemoveAll")) =>
        (ret.err # Nil /\ ret.pkg = <<>>)

\* the symbols whose conversion the probe reported as failed
ConversionFailed ==
    \E i \in 1..Len(pStderr) : pStderr[i] = "Reflection: error"

\* the probe's main function ran to its end and the probe exited with 0
ProbeSucceeded == ppc = "exited" /\ pStatus = 0

\* C11: the synthesized program has exactly one type-extraction entry per
\* element of the symbol list, in input order, and the Package the probe
\* builds gets its Interfaces in that order: the i-th Interface is named after
\* the i-th symbol, and once the loop is over there are exactly n of them.
C11_OrderPreserved ==
    /\ program # <<>> =>
           /\ Len(ItsOf(program)) = Len(symbols)
           /\ \A i \in 1..Len(symbols) :
                  /\ ItsOf(program)[i].sym = symbols[i]
                  /\ ItsOf(program)[i].typ = symbols[i]
    /\ ppc \in {"range", "encode", "exited"} =>
           /\ Len(ppkg.Interfaces) <= Len(symbols)
           /\ \A i \in 1..Len(ppkg.Interfaces) :
                  ppkg.Interfaces[i].Name = symbols[i]
    /\ (ppc = "encode" \/ ProbeSucceeded) =>
           Len(ppkg.Interfaces) = Len(symbols)

\* C11 witness: the probe for two different symbols ran to its end.
C11_Witness ==
    /\ symbols = <<"Barer", "Fooer">> /\ ProbeSucceeded
    /\ Len(ppkg.Interfaces) = 2

\* C12: what the main function of a probe that exits with 0 has written to
\* standard output is whole lines, then the one line ENCODED_PKG, then the
\* encoding of one Package, and nothing after it.
C12_ProbeProtocol ==
    ProbeSucceeded =>
        /\ Cardinality(SentinelStarts(pStdout)) = 1
        /\ GobDecode(Payload(pStdout)).err = Nil
        /\ Payload(pStdout) = GobEncode(GobDecode(Payload(pStdout)).pkg[1])
        /\ Payload(pStdout) = GobEncode(ppkg)

\* C12 witness: a probe for one symbol exited with 0.
C12_Witness ==
    /\ ProbeSucceeded /\ Len(ppkg.Interfaces) = 1
    /\ pStdout = SentinelOutput \o GobEncode(ppkg)

C19_FailsBeforeSentinel ==
    /\ ConversionFailed =>
           (ppc = "exited" /\ pStatus = 1 /\ pStdout = <<>>)
    /\ pStdout # <<>> =>
           /\ IsPrefix(SentinelOutput, pStdout)
           /\ pIdx = Len(its) /\ Len(its) = Len(symbols)
           /\ Len(ppkg.Interfaces) = Len(symbols)
    /\ (pc = "done" /\ ret.pkg # <<>>) =>
           Len(ret.pkg[1].Interfaces) = Len(symbols)

\* C19 witness: the first symbol was converted, the second was not, and
\* Reflect returned the error of the run.
C19_Witness ==
    /\ ConversionFailed /\ pIdx = 2 /\ Len(ppkg.Interfaces) = 1
    /\ pc = "done" /\ ret.err = ErrRun

\* the source an invocation rendered: in its buffer, or on its standard
\* output if prog_only made it print the source and exit
Rendered(l) == IF l.pc = "exited" THEN l.osStdout ELSE l.program

Holds(l) ==
    /\ l.tmpDir # ""
    /\ \A i \in 1..Len(l.removed) : l.removed[i] # <<l.tmpDir>>

\* the invocation has built its probe and has not removed it itself
Built(l) ==
    /\ l.progPath # <<>>
    /\ \E i \in 1..Len(l.log) : l.log[i] = "Build"
    /\ \A i \in 1..Len(l.failed) : l.failed[i] # "Build"
    /\ \A i \in 1..Len(l.removed) : l.removed[i] # l.progPath

\* the invocation has written the source into its workspace
Wrote(l) ==
    /\ \E i \in 1..Len(l.log) : l.log[i] = "WriteFile"
    /\ \A i \in 1..Len(l.failed) : l.failed[i] # "WriteFile"

\* the workspace, the source and the probe of the invocation are where it
\* put them
Intact(l) ==
    /\ Holds(l) => <<l.tmpDir>> \in fs
    /\ (Holds(l) /\ Wrote(l)) => <<l.tmpDir, progSource>> \in fs
    /\ (Holds(l) /\ Built(l)) => l.progPath \in fs

====
